---- MODULE Spec2Model ----
(***************************************************************************)
(* Feminizer-voice: the streaming frequency-analysis engine.               *)
(*                                                                         *)
(* src/Feminizer-voice/src/audio_processor.rs                              *)
(*   AudioProcessor::new / build_stream (the capture callback),            *)
(*   FrequencyProcessor::process_samples / analyze_frequency               *)
(* src/Feminizer-voice/src/main.rs                                         *)
(*   VoiceFrequencyApp::start_recording / stop_recording /                 *)
(*   update_frequency_data / update                                        *)
(*                                                                         *)
(* Two threads are modelled: the UI thread (eframe's update(), one frame   *)
(* after the other) and the capture thread of each live cpal stream (one   *)
(* callback invocation after the other).  They share the mailbox           *)
(* frequency_data: Arc<Mutex<Option<FrequencyData>>>.                      *)
(*                                                                         *)
(* Encodings.                                                              *)
(*  - The ring buffer keeps BufSize samples; the program uses 1024, the    *)
(*    model a small length.  The bin arithmetic of analyze_frequency is    *)
(*    kept at the reference configuration (FftSize, SampleRate).           *)
(*  - rustfft is not modelled: the magnitude spectrum of a window is any   *)
(*    spectrum of a bounded set, the zero spectrum for an all-zero window. *)
(*    Only the bins analyze_frequency reads (0 .. ScanBins-1) are kept.    *)
(*  - Magnitudes are integers in units of 0.001, frequencies are exact     *)
(*    rationals [num, den] in Hz (den > 0); f32 rounding is not modelled.  *)
(*  - An amplitude is kept as the sum of squares of the window; the RMS    *)
(*    is sqrt(sumsq / BufSize), compared through its square.               *)
(*  - The callback's samples are the normalised mono samples (the f32,     *)
(*    one-channel path of lines 74-77, where to_sample is the identity).   *)
(***************************************************************************)
EXTENDS Integers, Sequences, FiniteSets, TLC

\* ------------------------------------------------------------- bounds
BufSize == 2          \* ring length of the model (buffer_size)
MaxChunk == 4         \* longest chunk one callback delivers
MaxStreams == 2       \* streams ever created by start_recording
MaxWindows == 3       \* the window number of a stream saturates here
MaxMag == 4           \* magnitudes are 0 .. MaxMag, in units of 0.001
MaxPeaks == 2         \* non-zero bins of an input spectrum (SpecAnalyze)

\* ---------------------------------------------------- program constants
FftSize == 1024       \* FrequencyProcessor::new(sample_rate, 1024)
SampleRate == 44100   \* config.sample_rate(), reference configuration
BandLow == 50         \* 50.0 Hz
BandHigh == 450       \* 450.0 Hz
SilenceGate == 1      \* max_magnitude > 0.001, in units of 0.001
ThresholdSqNum == 4   \* min_amplitude_threshold 0.02: 0.02^2 = 4 / 10000
ThresholdSqDen == 10000

Min(a, b) == IF a < b THEN a ELSE b

\* normalised samples: silence and full scale
Samples == {0, 1}
\* the chunks a callback may deliver to the aggregator
Chunks == UNION {[1 .. n -> Samples] : n \in 1 .. MaxChunk}
\* the chunks of the running system: constant level, at most one window
MainChunks == {[i \in 1 .. n |-> v] : n \in 1 .. BufSize, v \in Samples}

\* ----------------------------------------------------------- rationals
Rat(n, d) == IF d < 0 THEN [num |-> -n, den |-> -d] ELSE [num |-> n, den |-> d]
Zero == [num |-> 0, den |-> 1]
RatGE(f, k) == f.num >= k * f.den
RatLE(f, k) == f.num <= k * f.den

\* ------------------------------------------------ FrequencyProcessor
\* vec![0.0; buffer_size]
EmptyBuffer == [i \in 0 .. BufSize - 1 |-> 0]

\* process_samples: write each sample at buffer_pos, advance modulo
\* buffer_size, and RETURN at the first wrap to 0 (the rest of the chunk is
\* not read).  analysed: whether Some(analyze_frequency()) is returned.
\* mutant: the wrap is tested on the cursor before it is advanced
RECURSIVE process_samples_test_first(_, _, _)
process_samples_test_first(buffer, buffer_pos, samples) ==
    IF samples = <<>>
    THEN [buffer |-> buffer, buffer_pos |-> buffer_pos, analysed |-> FALSE]
    ELSE LET b1 == [buffer EXCEPT ![buffer_pos] = Head(samples)]
             p1 == (buffer_pos + 1) % BufSize
         IN  IF buffer_pos = 0
             THEN [buffer |-> b1, buffer_pos |-> p1, analysed |-> TRUE]
             ELSE process_samples_test_first(b1, p1, Tail(samples))

RECURSIVE process_samples(_, _, _)
process_samples(buffer, buffer_pos, samples) ==
    IF samples = <<>>
    THEN [buffer |-> buffer, buffer_pos |-> buffer_pos, analysed |-> FALSE]
    ELSE LET b1 == [buffer EXCEPT ![buffer_pos] = Head(samples)]
             p1 == (buffer_pos + 1) % BufSize
         IN  IF p1 = 0
             THEN [buffer |-> b1, buffer_pos |-> p1, analysed |-> TRUE]
             ELSE process_samples(b1, p1, Tail(samples))

\* spectrum.len() = buffer_size / 2
SpectrumLen == FftSize \div 2
min_bin == (BandLow * FftSize) \div SampleRate
max_bin == Min((BandHigh * FftSize) \div SampleRate, SpectrumLen - 1)
\* the bins analyze_frequency can read, min_bin .. max_bin and the two
\* neighbours of the dominant bin, and one bin beyond them that stands for
\* the rest of the spectrum, which it never reads
ScanBins == max_bin + 3
Bins == 0 .. ScanBins - 1
ZeroSpectrum == [i \in Bins |-> 0]

\* mutant: the comparison of the scan is not strict, so that among equal
\* magnitudes the last bin wins
RECURSIVE PeakScan_last_wins(_, _, _, _)
PeakScan_last_wins(spectrum, i, max_magnitude, dominant_bin) ==
    IF i > max_bin
    THEN [max_magnitude |-> max_magnitude, dominant_bin |-> dominant_bin]
    ELSE IF spectrum[i] >= max_magnitude
         THEN PeakScan_last_wins(spectrum, i + 1, spectrum[i], i)
         ELSE PeakScan_last_wins(spectrum, i + 1, max_magnitude, dominant_bin)

\* the scan of lines 167-175 over bins lo .. max_bin, from the running
\* maximum (max_magnitude, dominant_bin)
RECURSIVE PeakScan(_, _, _, _)
PeakScan(spectrum, i, max_magnitude, dominant_bin) ==
    IF i > max_bin
    THEN [max_magnitude |-> max_magnitude, dominant_bin |-> dominant_bin]
    ELSE IF spectrum[i] > max_magnitude
         THEN PeakScan(spectrum, i + 1, spectrum[i], i)
         ELSE PeakScan(spectrum, i + 1, max_magnitude, dominant_bin)

\* lines 177-192: parabolic interpolation around dominant_bin, or the
\* bin-centre frequency at a boundary bin.  With D = y1 - 2 y2 + y3 = 2a
\* and E = y1 - y3 = -2b, x_offset = E / (2 D) and the frequency is
\* (2 D bin + E) * sr / (2 D N).
Interpolate(spectrum, dominant_bin) ==
    IF dominant_bin > 0 /\ dominant_bin < SpectrumLen - 1
    THEN LET y1 == spectrum[dominant_bin - 1]
             y2 == spectrum[dominant_bin]
             y3 == spectrum[dominant_bin + 1]
             D == y1 - 2 * y2 + y3
             E == y1 - y3
         IN  IF D # 0
             THEN Rat((2 * D * dominant_bin + E) * SampleRate, 2 * D * FftSize)
             ELSE Rat(dominant_bin * SampleRate, FftSize)
    ELSE Rat(dominant_bin * SampleRate, FftSize)

\* lines 163-204, from the magnitude spectrum on: the reported
\* dominant_frequency, with the peak it was taken from
analyze_frequency(spectrum) ==
    LET peak == PeakScan(spectrum, min_bin, 0, 0)
        dominant_frequency == Interpolate(spectrum, peak.dominant_bin)
    IN  [dominant_frequency |->
             IF peak.max_magnitude > SilenceGate THEN dominant_frequency ELSE Zero,
         dominant_bin |-> peak.dominant_bin,
         max_magnitude |-> peak.max_magnitude]

\* line 194: sum of x * x over the window
SumSq(buffer) ==
    LET RECURSIVE Sum(_)
        Sum(i) == IF i = BufSize THEN 0 ELSE buffer[i] * buffer[i] + Sum(i + 1)
    IN  Sum(0)

\* a spectrum with its non-zero bins P at magnitudes m
SpectrumOf(P, m) == [i \in Bins |-> IF i \in P THEN m[i] ELSE 0]
\* the spectra rustfft may return for a window in the model of the running
\* system: zero for silence, else a lone peak at any bin
SpectraOf(buffer) ==
    IF SumSq(buffer) = 0
    THEN {ZeroSpectrum}
    ELSE {SpectrumOf({b}, [i \in {b} |-> MaxMag]) : b \in {min_bin, max_bin \div 2}}

\* ------------------------------------------------------------- state
VARIABLES
    \* VoiceFrequencyApp
    audio_processor,      \* 0 for None, else the id of the owned stream
    is_recording,
    error_message,        \* "None" or the failure
    current_frequency,
    current_amplitude,
    ui_pc,                \* position of the UI thread inside update()
    \* the mailbox Arc<Mutex<Option<FrequencyData>>>
    frequency_data,
    data_lock,            \* "free", "ui" or "callback"
    \* the live cpal streams: id -> processor state and callback position
    streams,
    created,              \* number of streams created so far
    \* history
    last_pub,             \* the last result written to the mailbox
    phase,                \* 1 after a dropped result, 2 once a later one is
                          \* in the mailbox, 0 once a poll has read that
    \* analysis harness (SpecAnalyze)
    spectrum,
    analysis,
    shown

vars == <<audio_processor, is_recording, error_message, current_frequency,
          current_amplitude, ui_pc, frequency_data, data_lock, streams,
          created, last_pub, phase, spectrum, analysis, shown>>

app_vars == <<audio_processor, is_recording, error_message>>
ui_vars == <<current_frequency, current_amplitude>>
harness_vars == <<spectrum, analysis, shown>>

None == [some |-> FALSE]
Some(data) == [some |-> TRUE, data |-> data]

\* the failures of AudioProcessor::new: lines 21, 23, 51, 43-49 (build), 54
Errors == {"no input device", "play failed"}

\* FrequencyProcessor::new plus the callback's position
NewStream ==
    [buffer |-> EmptyBuffer, buffer_pos |-> 0, pc |-> "idle", samples |-> <<>>,
     result |-> None, proc_lock |-> FALSE, fed |-> 0, window |-> 0]

Live == DOMAIN streams

Init ==
    /\ audio_processor = 0
    /\ is_recording = FALSE
    /\ error_message = "None"
    /\ current_frequency = Zero
    /\ current_amplitude = 0
    /\ ui_pc = "poll"
    /\ frequency_data = None
    /\ data_lock = "free"
    /\ streams = [s \in {} |-> NewStream]
    /\ created = 0
    /\ last_pub = None
    /\ phase = 0
    /\ spectrum = ZeroSpectrum
    /\ analysis = None
    /\ shown = None

\* ------------------------------------------------- the capture callback
\* lines 73-88: cpal invokes the callback of live stream s with a chunk
CallbackEnter(s, chunk) ==
    /\ s \in Live
    /\ streams[s].pc = "idle"
    /\ streams' = [streams EXCEPT ![s].pc = "process", ![s].samples = chunk]
    /\ UNCHANGED <<app_vars, ui_vars, ui_pc, frequency_data, data_lock, created,
                   last_pub, phase, harness_vars>>

\* lines 194-204: the FrequencyData of the window in buffer, for one of the
\* spectra the transform may return, tagged with its stream and window
Results(s, buffer, window) ==
    {[dominant_frequency |-> analyze_frequency(sp).dominant_frequency,
      amplitude |-> SumSq(buffer), stream |-> s, window |-> window] :
         sp \in SpectraOf(buffer)}

\* lines 90-91: processor.try_lock(), then process_samples(&samples).  The
\* processor mutex is shared with nobody but this callback.
CallbackProcess(s) ==
    /\ s \in Live
    /\ streams[s].pc = "process"
    /\ LET st == streams[s]
           r == process_samples(st.buffer, st.buffer_pos, st.samples)
           fed == Min(st.fed + Len(st.samples), BufSize + 1)
           window == Min(st.window + 1, MaxWindows)
       IN  IF st.proc_lock
           THEN streams' = [streams EXCEPT ![s].pc = "idle", ![s].samples = <<>>]
           ELSE IF r.analysed
           THEN \E data \in Results(s, r.buffer, window) :
                    streams' = [streams EXCEPT ![s] =
                        [st EXCEPT !.buffer = r.buffer, !.buffer_pos = r.buffer_pos,
                                   !.pc = "publish", !.result = Some(data),
                                   !.proc_lock = TRUE, !.fed = fed,
                                   !.window = window]]
           ELSE streams' = [streams EXCEPT ![s] =
                        [st EXCEPT !.buffer = r.buffer, !.buffer_pos = r.buffer_pos,
                                   !.pc = "idle", !.samples = <<>>, !.fed = fed]]
    /\ UNCHANGED <<app_vars, ui_vars, ui_pc, frequency_data, data_lock, created,
                   last_pub, phase, harness_vars>>

\* the callback returns: its locals and the processor guard are dropped
Returned(st) ==
    [st EXCEPT !.pc = "idle", !.samples = <<>>, !.result = None,
               !.proc_lock = FALSE]

\* line 92: frequency_data.try_lock() succeeds
PublishAcquire(s) ==
    /\ s \in Live
    /\ streams[s].pc = "publish"
    /\ data_lock = "free"
    /\ data_lock' = "callback"
    /\ streams' = [streams EXCEPT ![s].pc = "write"]
    /\ UNCHANGED <<app_vars, ui_vars, ui_pc, frequency_data, created, last_pub,
                   phase, harness_vars>>

\* mutant: frequency_data.lock() instead of try_lock(): the callback waits
PublishContended_waits(s) ==
    /\ s \in Live
    /\ streams[s].pc = "publish"
    /\ data_lock # "free"
    /\ FALSE
    /\ UNCHANGED vars

\* line 92: frequency_data.try_lock() fails: the result is dropped
PublishContended(s) ==
    /\ s \in Live
    /\ streams[s].pc = "publish"
    /\ data_lock # "free"
    /\ streams' = [streams EXCEPT ![s] = Returned(streams[s])]
    /\ phase' = IF phase = 0 THEN 1 ELSE phase
    /\ UNCHANGED <<app_vars, ui_vars, ui_pc, frequency_data, data_lock, created,
                   last_pub, harness_vars>>

\* mutant: a filled slot is not overwritten
PublishWrite_first_wins(s) ==
    /\ s \in Live
    /\ streams[s].pc = "write"
    /\ frequency_data' =
           IF frequency_data.some THEN frequency_data ELSE streams[s].result
    /\ last_pub' = streams[s].result
    /\ data_lock' = "free"
    /\ streams' = [streams EXCEPT ![s] = Returned(streams[s])]
    /\ phase' = IF phase = 1 /\ frequency_data' = streams[s].result
                THEN 2 ELSE phase
    /\ UNCHANGED <<app_vars, ui_vars, ui_pc, created, harness_vars>>

\* line 93: *data_guard = Some(result), then the guard is dropped
PublishWrite(s) ==
    /\ s \in Live
    /\ streams[s].pc = "write"
    /\ frequency_data' = streams[s].result
    /\ last_pub' = streams[s].result
    /\ data_lock' = "free"
    /\ streams' = [streams EXCEPT ![s] = Returned(streams[s])]
    /\ phase' = IF phase = 1 /\ frequency_data' = streams[s].result
                THEN 2 ELSE phase
    /\ UNCHANGED <<app_vars, ui_vars, ui_pc, created, harness_vars>>

\* ------------------------------------------------------ the UI thread
\* main.rs line 81: try_lock() succeeds
PollAcquire ==
    /\ ui_pc = "poll"
    /\ data_lock = "free"
    /\ data_lock' = "ui"
    /\ ui_pc' = "read"
    /\ UNCHANGED <<app_vars, ui_vars, frequency_data, streams, created, last_pub,
                   phase, harness_vars>>

\* main.rs lines 81, 112: try_lock() fails, update_frequency_data returns false
PollContended ==
    /\ ui_pc = "poll"
    /\ data_lock # "free"
    /\ ui_pc' = "button"
    /\ UNCHANGED <<app_vars, ui_vars, frequency_data,
                   data_lock, streams, created, last_pub, phase, harness_vars>>

\* main.rs line 83: data.amplitude < self.min_amplitude_threshold
BelowThreshold(amplitude) ==
    amplitude * ThresholdSqDen < ThresholdSqNum * BufSize

\* mutant: the lower bound of the band is not tested
filtered_frequency_no_low(dominant_frequency) ==
    IF RatLE(dominant_frequency, BandHigh) THEN dominant_frequency ELSE Zero

\* main.rs lines 87-92
filtered_frequency(dominant_frequency) ==
    IF RatGE(dominant_frequency, BandLow) /\ RatLE(dominant_frequency, BandHigh)
    THEN dominant_frequency
    ELSE Zero

\* mutant: the poll takes the result out of the slot (Option::take)
PollRead_take ==
    /\ ui_pc = "read"
    /\ IF frequency_data.some /\ ~BelowThreshold(frequency_data.data.amplitude)
       THEN /\ current_frequency' =
                   filtered_frequency(frequency_data.data.dominant_frequency)
            /\ current_amplitude' = frequency_data.data.amplitude
       ELSE UNCHANGED <<current_frequency, current_amplitude>>
    /\ frequency_data' = None
    /\ data_lock' = "free"
    /\ ui_pc' = "button"
    /\ phase' = IF phase = 2 THEN 0 ELSE phase
    /\ UNCHANGED <<app_vars, streams, created, last_pub, harness_vars>>

\* main.rs lines 82-113 under the guard, which is dropped on return
PollRead ==
    /\ ui_pc = "read"
    /\ IF frequency_data.some /\ ~BelowThreshold(frequency_data.data.amplitude)
       THEN /\ current_frequency' =
                   filtered_frequency(frequency_data.data.dominant_frequency)
            /\ current_amplitude' = frequency_data.data.amplitude
       ELSE UNCHANGED <<current_frequency, current_amplitude>>
    /\ data_lock' = "free"
    /\ ui_pc' = "button"
    /\ phase' = IF phase = 2 THEN 0 ELSE phase
    /\ UNCHANGED <<app_vars, frequency_data, streams, created, last_pub,
                   harness_vars>>

\* main.rs lines 177-190: the button is not clicked in this frame
ButtonIdle ==
    /\ ui_pc = "button"
    /\ ui_pc' = "poll"
    /\ UNCHANGED <<app_vars, ui_vars, frequency_data, data_lock, streams, created,
                   last_pub, phase, harness_vars>>

\* dropping an AudioProcessor drops its cpal Stream, which stops the capture
\* thread once the callback in progress, if any, has returned
Dropped(id) == IF id \in Live THEN streams[id].pc = "idle" ELSE TRUE
Without(id) == [s \in Live \ {id} |-> streams[s]]

\* mutant: stop_recording only clears the flag and keeps the AudioProcessor
ClickStop_keeps_stream ==
    /\ ui_pc = "button"
    /\ is_recording
    /\ is_recording' = FALSE
    /\ ui_pc' = "poll"
    /\ UNCHANGED <<audio_processor, error_message, ui_vars, frequency_data,
                   data_lock, streams, created, last_pub, phase, harness_vars>>

\* main.rs lines 185-186, 74-78: stop_recording
ClickStop ==
    /\ ui_pc = "button"
    /\ is_recording
    /\ Dropped(audio_processor)
    /\ streams' = Without(audio_processor)
    /\ audio_processor' = 0
    /\ is_recording' = FALSE
    /\ ui_pc' = "poll"
    /\ UNCHANGED <<error_message, ui_vars, frequency_data, data_lock, created,
                   last_pub, phase, harness_vars>>

\* mutant: the recording flag is set before the result of new is looked at
ClickStartFail_sets_flag(e) ==
    /\ ui_pc = "button"
    /\ ~is_recording
    /\ is_recording' = TRUE
    /\ error_message' = e
    /\ ui_pc' = "poll"
    /\ UNCHANGED <<audio_processor, ui_vars, frequency_data, data_lock, streams,
                   created, last_pub, phase, harness_vars>>

\* main.rs lines 187-188, 60, 67-70: AudioProcessor::new returns Err(e); a
\* stream that was built but could not be played is dropped inside new
ClickStartFail(e) ==
    /\ ui_pc = "button"
    /\ ~is_recording
    /\ error_message' = e
    /\ ui_pc' = "poll"
    /\ UNCHANGED <<audio_processor, is_recording, ui_vars, frequency_data,
                   data_lock, streams, created, last_pub, phase, harness_vars>>

\* main.rs lines 187-188, 60; audio_processor.rs lines 17-56:
\* AudioProcessor::new built and played a stream
ClickStartNew ==
    /\ ui_pc = "button"
    /\ ~is_recording
    /\ created < MaxStreams
    /\ created' = created + 1
    /\ streams' = streams @@ (created + 1 :> NewStream)
    /\ ui_pc' = "assign"
    /\ UNCHANGED <<app_vars, ui_vars, frequency_data, data_lock, last_pub, phase,
                   harness_vars>>

\* mutant: is_recording is not set on success
StartAssign_no_flag ==
    /\ ui_pc = "assign"
    /\ Dropped(audio_processor)
    /\ streams' = Without(audio_processor)
    /\ audio_processor' = created
    /\ error_message' = "None"
    /\ ui_pc' = "poll"
    /\ UNCHANGED <<is_recording, ui_vars, frequency_data, data_lock, created,
                   last_pub, phase, harness_vars>>

\* main.rs lines 61-66: Ok(processor): the assignment drops the previous
\* value of self.audio_processor
StartAssign ==
    /\ ui_pc = "assign"
    /\ Dropped(audio_processor)
    /\ streams' = Without(audio_processor)
    /\ audio_processor' = created
    /\ is_recording' = TRUE
    /\ error_message' = "None"
    /\ ui_pc' = "poll"
    /\ UNCHANGED <<ui_vars, frequency_data, data_lock, created, last_pub, phase,
                   harness_vars>>

CallbackStep(s) ==
    \/ \E chunk \in MainChunks : CallbackEnter(s, chunk)
    \/ CallbackProcess(s)
    \/ PublishAcquire(s)
    \/ PublishContended(s)
    \/ PublishWrite(s)

UiStep ==
    \/ PollAcquire
    \/ PollContended
    \/ PollRead
    \/ ButtonIdle
    \/ ClickStop
    \/ \E e \in Errors : ClickStartFail(e)
    \/ ClickStartNew
    \/ StartAssign

Next ==
    \/ \E s \in 1 .. MaxStreams : CallbackStep(s)
    \/ UiStep

Spec == Init /\ [][Next]_vars

\* ------------------------------------------------ the aggregator alone
\* one stream just started, fed any chunks, the UI thread at rest
PushInit ==
    /\ audio_processor = 1
    /\ is_recording = TRUE
    /\ error_message = "None"
    /\ current_frequency = Zero
    /\ current_amplitude = 0
    /\ ui_pc = "poll"
    /\ frequency_data = None
    /\ data_lock = "free"
    /\ streams = (1 :> NewStream)
    /\ created = 1
    /\ last_pub = None
    /\ phase = 0
    /\ spectrum = ZeroSpectrum
    /\ analysis = None
    /\ shown = None

PushNext ==
    \/ \E chunk \in Chunks : CallbackEnter(1, chunk)
    \/ CallbackProcess(1)
    \/ PublishAcquire(1)
    \/ PublishWrite(1)

SpecPush == PushInit /\ [][PushNext]_vars

\* ------------------------------------------------- the analysis alone
\* the input spectra: at most MaxPeaks non-zero bins
Spectra ==
    UNION {{SpectrumOf(P, m) : m \in [P -> 1 .. MaxMag]} :
              P \in {Q \in SUBSET Bins : Cardinality(Q) <= MaxPeaks}}

AnalyzeInit ==
    /\ audio_processor = 0
    /\ is_recording = FALSE
    /\ error_message = "None"
    /\ current_frequency = Zero
    /\ current_amplitude = 0
    /\ ui_pc = "poll"
    /\ frequency_data = None
    /\ data_lock = "free"
    /\ streams = [s \in {} |-> NewStream]
    /\ created = 0
    /\ last_pub = None
    /\ phase = 0
    /\ spectrum \in Spectra
    /\ analysis = None
    /\ shown = None

main_vars == <<app_vars, ui_vars, ui_pc, frequency_data, data_lock, streams,
               created, last_pub, phase>>

\* analyze_frequency on the spectrum
Analyze ==
    /\ ~analysis.some
    /\ analysis' = Some(analyze_frequency(spectrum))
    /\ UNCHANGED <<main_vars, spectrum, shown>>

\* the consumer's band filter on the reported frequency
Show ==
    /\ analysis.some
    /\ ~shown.some
    /\ shown' = Some(filtered_frequency(analysis.data.dominant_frequency))
    /\ UNCHANGED <<main_vars, spectrum, analysis>>

AnalyzeNext == Analyze \/ Show

SpecAnalyze == AnalyzeInit /\ [][AnalyzeNext]_vars

\* ---------------------------------- one recording, never stopped
\* the two threads around the mailbox: a start that succeeds, then every
\* callback delivering one full window of full-scale samples
RunChunks == {[i \in 1 .. BufSize |-> 1]}

CallbackRun(s) ==
    \/ \E chunk \in RunChunks : CallbackEnter(s, chunk)
    \/ CallbackProcess(s)
    \/ PublishAcquire(s)
    \/ PublishContended(s)
    \/ PublishWrite(s)

UiRun ==
    \/ PollAcquire
    \/ PollContended
    \/ PollRead
    \/ ButtonIdle
    \/ ClickStartNew
    \/ StartAssign

RunNext ==
    \/ \E s \in 1 .. MaxStreams : CallbackRun(s)
    \/ UiRun

SpecRun == Init /\ [][RunNext]_vars

\* the same with both threads scheduled fairly: cpal keeps invoking the
\* callback and every started handler runs to its end
LiveSpec ==
    /\ Init
    /\ [][RunNext]_vars
    /\ WF_vars(\E s \in 1 .. MaxStreams : CallbackRun(s))
    /\ WF_vars(UiRun)

\* =============================================================== claims
\* the ring after writing the first c samples of a chunk from cursor pos,
\* every sample at the cursor, the cursor advancing by one modulo BufSize
RECURSIVE RingAfter(_, _, _, _)
RingAfter(buffer, pos, samples, c) ==
    IF c = 0
    THEN buffer
    ELSE RingAfter([buffer EXCEPT ![pos] = Head(samples)], (pos + 1) % BufSize,
                   Tail(samples), c - 1)

\* the number of samples of a chunk of length len up to its last wrap
UpToLastWrap(pos, len) == len - ((pos + len) % BufSize)

\* C1: a call whose chunk completes the window more than once reports one
\* analysis, of the window that ends at the LAST wrap of the cursor within
\* the call.
C1_LastCompletionReported ==
    [][\A s \in Live \cap DOMAIN streams' :
          LET st == streams[s]
              len == Len(st.samples)
          IN  (/\ st.pc = "process"
               /\ streams'[s].pc # "process"
               /\ (st.buffer_pos + len) \div BufSize >= 2)
              => /\ streams'[s].result.some
                 /\ streams'[s].buffer =
                        RingAfter(st.buffer, st.buffer_pos, st.samples,
                                  UpToLastWrap(st.buffer_pos, len))]_vars

\* C2: from a fresh aggregator, no call returns a result while fewer than
\* BufSize samples have been fed, and once exactly BufSize samples have been
\* fed, in whatever chunks, exactly one analysis has been made, by the call
\* that delivered the last of them.
C2_OneAnalysisAtNthSample ==
    \A s \in Live :
        LET st == streams[s]
        IN  /\ st.fed < BufSize => (st.window = 0 /\ ~st.result.some)
            /\ st.fed = BufSize => st.window = 1

\* C2 witness: the window was completed by the last of several one-sample
\* calls, and its result is about to be published
C2_Witness ==
    \E s \in Live :
        /\ streams[s].fed = BufSize
        /\ streams[s].window = 1
        /\ streams[s].pc = "publish"
        /\ Len(streams[s].samples) = 1

\* C10: a call consumes its whole chunk: every sample is written at the
\* cursor, and afterwards buffer_pos = (p + L) mod BufSize.
C10_EverySampleConsumed ==
    [][\A s \in Live \cap DOMAIN streams' :
          LET st == streams[s]
              len == Len(st.samples)
          IN  (st.pc = "process" /\ streams'[s].pc # "process")
              => /\ streams'[s].buffer_pos = (st.buffer_pos + len) % BufSize
                 /\ streams'[s].buffer =
                        RingAfter(st.buffer, st.buffer_pos, st.samples, len)]_vars

\* a step in which the UI thread leaves position pc
UiLeaves(pc) == ui_pc = pc /\ ui_pc' # pc
\* a step in which the callback of stream s leaves position pc
CbLeaves(s, pc) ==
    /\ s \in Live
    /\ s \in DOMAIN streams'
    /\ streams[s].pc = pc
    /\ streams'[s].pc # pc

\* C3: the mailbox always holds the result published last (publishing B
\* after A leaves B), an uncontended poll takes exactly that result and
\* leaves the slot as it was, so repeated polls see the same result.
C3_LatestWinsPollKeeps ==
    [][/\ frequency_data' = last_pub'
       /\ UiLeaves("poll") => frequency_data' = frequency_data
       /\ UiLeaves("read") =>
              /\ frequency_data' = frequency_data
              /\ frequency_data = last_pub
              /\ IF last_pub.some /\ ~BelowThreshold(last_pub.data.amplitude)
                 THEN /\ current_amplitude' = last_pub.data.amplitude
                      /\ current_frequency' =
                             filtered_frequency(last_pub.data.dominant_frequency)
                 ELSE UNCHANGED <<current_frequency, current_amplitude>>]_vars

\* C3 witness: a second result was published over the first and a poll has
\* taken it
C3_Witness ==
    /\ ui_pc = "button"
    /\ frequency_data.some
    /\ frequency_data.data.window = 2
    /\ frequency_data.data.amplitude = BufSize
    /\ current_amplitude = frequency_data.data.amplitude
    /\ data_lock = "free"

\* the callback of s returns without its result and without touching the
\* mailbox
Drops(s) ==
    /\ streams'[s].pc = "idle"
    /\ ~streams'[s].result.some
    /\ UNCHANGED <<frequency_data, data_lock>>

\* the poll returns with nothing taken
ReturnsNothing ==
    /\ ui_pc' = "button"
    /\ UNCHANGED <<frequency_data, data_lock, current_frequency, current_amplitude>>

\* C4: nobody waits for the mailbox.  A thread at a lock attempt or holding
\* a lock can take its next step at once; with the mailbox held, the only
\* step of a publish is to return with its result dropped and the slot as it
\* was, and the only step of a poll is to return with nothing taken.
C4_NeverWaits ==
    /\ \A s \in Live :
           /\ streams[s].pc = "process" => ENABLED CallbackProcess(s)
           /\ streams[s].pc = "write" => ENABLED PublishWrite(s)
           /\ streams[s].pc = "publish" => ENABLED CallbackStep(s)
           /\ (streams[s].pc = "publish" /\ data_lock # "free") =>
                  ~ENABLED (CallbackStep(s) /\ ~Drops(s))
    /\ ui_pc = "read" => ENABLED PollRead
    /\ ui_pc = "poll" => ENABLED UiStep
    /\ (ui_pc = "poll" /\ data_lock # "free") =>
           ~ENABLED (UiStep /\ ~ReturnsNothing)

\* C4 witness: the callback found the mailbox held by the poll and returned
\* without its result, the poll still holding the mailbox
C4_Witness ==
    /\ phase = 1
    /\ ui_pc = "read"
    /\ data_lock = "ui"
    /\ \E s \in Live : streams[s].pc = "idle" /\ streams[s].window >= 1
    /\ ~frequency_data.some

\* C5: there is never more than one live stream, and the window number of
\* the result in the mailbox never decreases within a stream.
C5_OneProducerInOrder ==
    [][/\ Cardinality(DOMAIN streams') <= 1
       /\ (/\ frequency_data.some
           /\ frequency_data'.some
           /\ frequency_data'.data.stream = frequency_data.data.stream)
          => frequency_data'.data.window >= frequency_data.data.window
       /\ (frequency_data.some /\ frequency_data'.some)
          => frequency_data'.data.stream >= frequency_data.data.stream]_vars

\* C5 witness: a window's result was dropped and the next one of the same
\* stream, restarted once, replaced an older one in the mailbox
C5_Witness ==
    /\ frequency_data.some
    /\ frequency_data.data.stream = 2
    /\ frequency_data.data.window = 3
    /\ phase = 2

\* C6: while the application is stopped (and no start is under way) no step
\* changes the mailbox; the stop itself leaves the mailbox as it was and
\* leaves no stream; a filled slot is never emptied.
C6_StopKeepsMailbox ==
    [][/\ (~is_recording /\ ui_pc # "assign") => frequency_data' = frequency_data
       /\ (is_recording /\ ~is_recording')
          => /\ frequency_data' = frequency_data
             /\ audio_processor' = 0
             /\ DOMAIN streams' = {}
       /\ frequency_data.some => frequency_data'.some]_vars

\* C6 witness: stopped, the mailbox still holding the last result, which a
\* poll after the stop has taken
C6_Witness ==
    /\ ~is_recording
    /\ Live = {}
    /\ created = 1
    /\ frequency_data.some
    /\ frequency_data.data.amplitude = BufSize
    /\ ui_pc = "button"
    /\ current_amplitude = frequency_data.data.amplitude

KeepRunning ==
    /\ []<>(\E s \in Live : streams[s].pc = "publish")
    /\ []<>(ui_pc = "poll")

\* a dropped result is followed by the publication of a later one, and by a
\* poll that takes a result at least as recent
Recovers == ((phase = 1) ~> (phase = 2)) /\ ((phase = 1) ~> (phase = 0))

\* C8 as claimed: with windows completing and polls going on for ever,
\* every dropped result is followed by a published and polled later one.
C8_AlwaysSelfCorrecting == KeepRunning => Recovers

\* publish attempts and polls keep finding the mailbox free
NotStarved ==
    /\ []<>(data_lock = "callback")
    /\ []<>(data_lock = "ui")

\* C8: the same holds when, in addition, the publish attempts and the polls
\* do not all find the mailbox held: each acquires it again and again.
C8_SelfCorrectingWhenNotStarved == (KeepRunning /\ NotStarved) => Recovers

\* C8 witness: after a dropped result a later one was published, and the
\* poll now holds the mailbox to take it
C8_Witness ==
    /\ phase = 2
    /\ ui_pc = "read"
    /\ data_lock = "ui"
    /\ frequency_data.some
    /\ frequency_data.data.window >= 2

InBand(f) == RatGE(f, BandLow) /\ RatLE(f, BandHigh)

\* C9 as claimed: the dominant_frequency the analysis reports is 0 or lies
\* within 50 .. 450 Hz.
C9_ReportedInBand ==
    analysis.some =>
        (analysis.data.dominant_frequency.num = 0
         \/ InBand(analysis.data.dominant_frequency))

\* C9: the analysis reports 0 whenever the peak magnitude is not above the
\* gate, and the frequency the consumer keeps of a result is 0 or lies
\* within 50 .. 450 Hz.
C9_GatedThenFilteredInBand ==
    /\ analysis.some =>
           (analysis.data.max_magnitude <= SilenceGate
            => analysis.data.dominant_frequency = Zero)
    /\ shown.some => (shown.data = Zero \/ InBand(shown.data))
    /\ shown.some =>
           (InBand(analysis.data.dominant_frequency)
            => shown.data = analysis.data.dominant_frequency)

\* C9 witness: the analysis reported a frequency that is neither 0 nor in
\* the band, and the consumer replaced it by 0
C9_Witness ==
    /\ shown.some
    /\ analysis.data.dominant_frequency.num # 0
    /\ ~InBand(analysis.data.dominant_frequency)
    /\ shown.data = Zero

\* the scanned bins and the others
BandBins == min_bin .. max_bin
OutBins == Bins \ BandBins
\* the greatest magnitude of the input spectrum over the bins S
MaxOver(S) ==
    CHOOSE m \in {spectrum[i] : i \in S} : \A i \in S : spectrum[i] <= m
\* the lowest scanned bin of greatest magnitude among the scanned bins
LowestPeak ==
    CHOOSE i \in BandBins :
        /\ spectrum[i] = MaxOver(BandBins)
        /\ \A j \in BandBins : spectrum[j] = MaxOver(BandBins) => i <= j
\* a frequency of the analysis is k * SampleRate / (d * FftSize), or Zero:
\* in bins, k / d
BinNum(f) == f.num \div SampleRate
BinDen(f) == IF f.num = 0 THEN 1 ELSE f.den \div FftSize
\* twice the distance of f from the centre of bin b, in units of 1 / BinDen(f)
\* bins
BinGap(f, b) == 2 * BinNum(f) - 2 * b * BinDen(f)
\* f is nearer to the centre of bin b than to that of any other bin
NearBin(f, b) ==
    /\ BinGap(f, b) < BinDen(f)
    /\ -BinGap(f, b) < BinDen(f)
\* f is at most half a bin away from the centre of bin b
WithinHalfBin(f, b) ==
    /\ BinGap(f, b) <= BinDen(f)
    /\ -BinGap(f, b) <= BinDen(f)

\* C11 as claimed: bins 1 .. 10 are the scanned ones, the selected bin is
\* the lowest scanned bin of greatest magnitude, and when the greatest
\* magnitude of the spectrum lies at a bin outside 1 .. 10, that bin is
\* neither the selected one nor the one the reported frequency falls in.
\* (A spectrum without a scanned peak, and a result of 0, which reports no
\* pitch, are left aside.)
C11_OutOfBandNeverReported ==
    analysis.some =>
        /\ min_bin = 1
        /\ max_bin = 10
        /\ MaxOver(BandBins) > 0 => analysis.data.dominant_bin = LowestPeak
        /\ \A o \in OutBins :
               (/\ spectrum[o] = MaxOver(Bins)
                /\ MaxOver(BandBins) < spectrum[o]
                /\ analysis.data.dominant_frequency.num # 0)
               => /\ analysis.data.dominant_bin # o
                  /\ ~NearBin(analysis.data.dominant_frequency, o)

\* C11: bins 1 .. 10 are the scanned ones.  If they are all 0 the selected
\* bin stays 0 and the reported frequency is 0; otherwise the selected bin
\* is the lowest scanned bin of greatest magnitude.  A bin the analysis does
\* not read has no influence on the result.  The reported frequency is
\* within half a bin of the selected bin when neither neighbour of that bin
\* exceeds it.
C11_LowestScannedPeak ==
    analysis.some =>
        /\ min_bin = 1
        /\ max_bin = 10
        /\ IF MaxOver(BandBins) = 0
           THEN /\ analysis.data.dominant_bin = 0
                /\ analysis.data.max_magnitude = 0
                /\ analysis.data.dominant_frequency = Zero
           ELSE /\ analysis.data.dominant_bin = LowestPeak
                /\ analysis.data.max_magnitude = MaxOver(BandBins)
        /\ analysis.data.dominant_bin \in {0} \cup BandBins
        /\ analysis.data =
               analyze_frequency([spectrum EXCEPT ![ScanBins - 1] = 0])
        /\ (/\ analysis.data.max_magnitude > SilenceGate
            /\ spectrum[analysis.data.dominant_bin - 1]
                   <= analysis.data.max_magnitude
            /\ spectrum[analysis.data.dominant_bin + 1]
                   <= analysis.data.max_magnitude)
           => WithinHalfBin(analysis.data.dominant_frequency,
                            analysis.data.dominant_bin)

\* C11 witness: the greatest magnitude lies just above the band, the last
\* scanned bin is the selected one, and the frequency reported falls in the
\* bin above the band
C11_Witness ==
    /\ analysis.some
    /\ spectrum[max_bin + 1] = MaxOver(Bins)
    /\ spectrum[max_bin] < spectrum[max_bin + 1]
    /\ analysis.data.dominant_bin = max_bin
    /\ analysis.data.dominant_frequency.num # 0
    /\ NearBin(analysis.data.dominant_frequency, max_bin + 1)
====
